---- MODULE Spec2Model ----
(***************************************************************************)
(* Model of the WebUSB <-> UART relay of src/src/main.rs: the frame        *)
(* detector whole_packet, the debug formatter pretty_print, the relay loop *)
(* WebEndpoints::relay_command and the supervisor loop of main.            *)
(*                                                                         *)
(* Bytes are the integers 0..255.  A Rust slice s[a..b] is the TLA+        *)
(* sequence SubSeq(s, a+1, b).                                             *)
(***************************************************************************)
EXTENDS Integers, Sequences, FiniteSets, TLC

(***************************************************************************)
(* Program constants.                                                      *)
(***************************************************************************)
PAYLOAD_CAP == 256
USB_BUF_LEN == 256
UART_BUF_LEN == 256
MAX_PACKET_SIZE == 64
STRING_CAP == 1024
MIN_PACKET == 12
LEN_OFFSET == 9
MIN_LEN == 3
HEX_WIDTH == 4

HEADER == <<239, 1>>
ADDRESS == <<255, 255, 255, 255>>

(***************************************************************************)
(* Bounds of the model.                                                    *)
(***************************************************************************)
MaxSmallRead == 8
MaxHostMsgs == 2
MaxTrail == 3

(***************************************************************************)
(* Slices and fixed arrays.                                                *)
(***************************************************************************)
Slice(s, a, b) == SubSeq(s, a + 1, b)

ZeroArray(n) == [i \in 1..n |-> 0]

\* A channel read into a caller's array: the first Len(data) cells are
\* overwritten, the rest of the array is left as it was.
ReadInto(buf, data) == data \o SubSeq(buf, Len(data) + 1, Len(buf))

(***************************************************************************)
(* whole_packet                                                            *)
(***************************************************************************)
Ok(v) == [ok |-> TRUE, val |-> v]
Err(e) == [ok |-> FALSE, val |-> e]

\* usize::from_be_bytes of four bytes (usize is 32 bits wide on the target, so
\* the value is exact; whole_packet passes 0 for the two high bytes).
from_be_bytes(b) == ((b[1] * 256 + b[2]) * 256 + b[3]) * 256 + b[4]

whole_packet_LenOffByOne(buffer, address) ==
    IF Len(buffer) < MIN_PACKET THEN Err(FALSE)
    ELSE IF Slice(buffer, 0, 2) # HEADER THEN Err(FALSE)
    ELSE IF Slice(buffer, 2, 6) # address THEN Err(FALSE)
    ELSE LET len == from_be_bytes(<<0, 0, buffer[8], buffer[9]>>)
         IN  IF len <= MIN_LEN THEN Err(FALSE)
             ELSE IF Len(buffer) < len + LEN_OFFSET THEN Err(FALSE)
             ELSE Ok(len + LEN_OFFSET)

whole_packet_NoAddressCheck(buffer, address) ==
    IF Len(buffer) < MIN_PACKET THEN Err(FALSE)
    ELSE IF Slice(buffer, 0, 2) # HEADER THEN Err(FALSE)
    ELSE LET len == from_be_bytes(<<0, 0, buffer[8], buffer[9]>>)
         IN  IF len < MIN_LEN THEN Err(FALSE)
             ELSE IF Len(buffer) < len + LEN_OFFSET THEN Err(FALSE)
             ELSE Ok(len + LEN_OFFSET)

whole_packet(buffer, address) ==
    IF Len(buffer) < MIN_PACKET THEN Err(FALSE)
    ELSE IF Slice(buffer, 0, 2) # HEADER THEN Err(FALSE)
    ELSE IF Slice(buffer, 2, 6) # address THEN Err(FALSE)
    ELSE LET len == from_be_bytes(<<0, 0, buffer[8], buffer[9]>>)
         IN  IF len < MIN_LEN THEN Err(FALSE)
             ELSE IF Len(buffer) < len + LEN_OFFSET THEN Err(FALSE)
             ELSE Ok(len + LEN_OFFSET)

(***************************************************************************)
(* pretty_print.  The heapless String<1024> is represented by its byte     *)
(* length and by whether an unwrap() of a failed write! has panicked: a    *)
(* write fails when the piece does not fit the remaining capacity.         *)
(***************************************************************************)
NewString == [len |-> 0, panicked |-> FALSE]

push_str(buf, n) ==
    IF buf.panicked THEN buf
    ELSE IF buf.len + n > STRING_CAP THEN [buf EXCEPT !.panicked = TRUE]
    ELSE [buf EXCEPT !.len = buf.len + n]

RECURSIVE DecimalDigits(_)
DecimalDigits(n) == IF n < 10 THEN 1 ELSE 1 + DecimalDigits(n \div 10)

saturating_sub(a, b) == IF a >= b THEN a - b ELSE 0

\* "\x1B[3?m" is 5 bytes, "{:#04X}" of a u8 is 4 bytes, "\x1B[0m" is 4 bytes.
WriteColoured(buf) == push_str(push_str(push_str(buf, 5), HEX_WIDTH), 4)

WritePlain(buf) == push_str(buf, HEX_WIDTH)

WriteByte(buf, idx, len) ==
    LET sep == IF idx # 0 THEN push_str(buf, 2) ELSE buf
    IN  IF idx < 2 THEN WriteColoured(sep)
        ELSE IF idx < 6 THEN WriteColoured(sep)
        ELSE IF idx = 6 THEN WriteColoured(sep)
        ELSE IF idx < 9 THEN WriteColoured(sep)
        ELSE IF idx = 9 THEN WriteColoured(sep)
        ELSE IF idx >= saturating_sub(len, 2) THEN WriteColoured(sep)
        ELSE WritePlain(sep)

\* The for loop over bytes.iter().enumerate(), for the indices lo..hi: the
\* bytes are written in index order and the first failed write! panics.
\* The range is halved only to keep the evaluation shallow.
RECURSIVE WriteBytes(_, _, _, _)
WriteBytes(buf, lo, hi, len) ==
    IF hi <= lo THEN buf
    ELSE IF hi = lo + 1 THEN WriteByte(buf, lo, len)
    ELSE LET mid == (lo + hi) \div 2
             left == WriteBytes(buf, lo, mid, len)
         IN  IF left.panicked THEN left ELSE WriteBytes(left, mid, hi, len)

pretty_print(bytes) ==
    LET len == Len(bytes)
        open == push_str(NewString, 1)
        body == WriteBytes(open, 0, len, len)
        close == push_str(body, 1)
    IN  push_str(push_str(push_str(close, 2), DecimalDigits(close.len)), 1)

(***************************************************************************)
(* heapless::Vec<u8, 256> operations used on payload.                      *)
(***************************************************************************)
extend_from_slice(vec, other) ==
    IF Len(vec) + Len(other) > PAYLOAD_CAP THEN Err(vec) ELSE Ok(vec \o other)

copy_within(buf, src_start, src_end, dest) ==
    [i \in 1..Len(buf) |->
        IF i > dest /\ i <= dest + (src_end - src_start)
        THEN buf[src_start + (i - dest)]
        ELSE buf[i]]

truncate_KeepsLength(vec, n) == vec

truncate(vec, n) == IF n < Len(vec) THEN SubSeq(vec, 1, n) ELSE vec

Compact_TruncateOnly(vec, len) == truncate(vec, Len(vec) - len)

\* Lines 253-260: slide the leftover bytes [len..total) to the front and cut
\* the Vec to the remaining length.
Compact(vec, len) ==
    LET total == Len(vec)
        remaining == total - len
    IN  truncate(copy_within(vec, len, total, 0), remaining)

(***************************************************************************)
(* The environment: the byte stream the sensor sends on the UART and the   *)
(* packets the host sends on the bulk OUT endpoint.                        *)
(***************************************************************************)
Body(pid, m) == [i \in 1..m |-> (i * 37 + pid) % 256]

\* A frame image: header, address, packet id, big-endian length field len,
\* followed by m bytes.
MkFrame(hdr, addr, pid, len, m) ==
    hdr \o addr \o <<pid>> \o <<len \div 256, len % 256>> \o Body(pid, m)

Frame(pid, len) == MkFrame(HEADER, ADDRESS, pid, len, len)

OTHER_ADDRESS == <<170, 170, 170, 170>>

Streams ==
    { Frame(7, 6),
      Frame(7, 3) \o <<1, 2, 3, 4, 5>>,
      Frame(1, 3) \o Frame(2, 6) \o Frame(3, 3),
      ZeroArray(12) \o Frame(7, 3),
      MkFrame(HEADER, OTHER_ADDRESS, 7, 3, 3) \o Frame(7, 3),
      MkFrame(HEADER, ADDRESS, 7, 2, 2) \o Frame(7, 3),
      Frame(7, 142),
      Frame(7, 143),
      MkFrame(HEADER, ADDRESS, 7, 300, 250),
      Frame(1, 3) \o Frame(2, 143) \o Body(3, 93) }

HostMsgs == { <<1, 2, 3>>, [i \in 1..MAX_PACKET_SIZE |-> i] }

Min(a, b) == IF a < b THEN a ELSE b

\* The byte counts one uart_rx.read can return at stream position p: a few
\* bytes, or everything pending up to the size of uart_buf.
CanRead(s, p, n) ==
    /\ 1 <= n
    /\ n <= Len(s) - p
    /\ n <= UART_BUF_LEN
    /\ (n <= MaxSmallRead \/ n = Min(Len(s) - p, UART_BUF_LEN))

(***************************************************************************)
(* State.                                                                  *)
(***************************************************************************)
VARIABLES
    pc,            \* where main's webusb_fut is: wait_connected, relay_command, panic
    enabled,       \* the host channel's endpoints are enabled
    payload,       \* relay_command's accumulation buffer
    usb_tx_log,    \* the slices handed to usb_tx.write, in order
    uart_tx_log,   \* the slices handed to uart_tx.write, in order
    usb_rx_log,    \* the packets usb_rx.read returned, in order
    stream,        \* the bytes the sensor sends in this run
    pos,           \* how many bytes of stream uart_rx.read has returned
    ev,            \* the match arm the last loop iteration took
    buffer,        \* detector harness: the buffer under test
    address,       \* detector harness: the expected address
    det            \* detector harness: the result of whole_packet

relayVars == <<pc, enabled, payload, usb_tx_log, uart_tx_log, usb_rx_log, pos, ev>>
detVars == <<buffer, address, det>>
vars == <<pc, enabled, payload, usb_tx_log, uart_tx_log, usb_rx_log, stream, pos, ev,
          buffer, address, det>>

NoDet == [done |-> FALSE, res |-> Err(FALSE)]

Init ==
    /\ pc = "wait_connected"
    /\ enabled = FALSE
    /\ payload = <<>>
    /\ usb_tx_log = <<>>
    /\ uart_tx_log = <<>>
    /\ usb_rx_log = <<>>
    /\ stream \in Streams
    /\ pos = 0
    /\ ev = "init"
    /\ buffer = <<>>
    /\ address = ADDRESS
    /\ det = NoDet

(***************************************************************************)
(* The host side of the USB bus.                                           *)
(***************************************************************************)
HostEnable ==
    /\ ~enabled
    /\ enabled' = TRUE
    /\ UNCHANGED <<pc, payload, usb_tx_log, uart_tx_log, usb_rx_log, stream, pos, ev>>
    /\ UNCHANGED detVars

HostDisable ==
    /\ enabled
    /\ enabled' = FALSE
    /\ UNCHANGED <<pc, payload, usb_tx_log, uart_tx_log, usb_rx_log, stream, pos, ev>>
    /\ UNCHANGED detVars

(***************************************************************************)
(* main's webusb_fut: wait_connected, then relay_command.                  *)
(***************************************************************************)
WaitConnected ==
    /\ pc = "wait_connected"
    /\ enabled
    /\ pc' = "relay_command"
    /\ payload' = <<>>
    /\ ev' = "connected"
    /\ UNCHANGED <<enabled, usb_tx_log, uart_tx_log, usb_rx_log, stream, pos>>
    /\ UNCHANGED detVars

(***************************************************************************)
(* relay_command, one action per arm of the match on the select.           *)
(***************************************************************************)
\* let command = &usb_buf[..n];
Command_WholeBuffer(usb_buf, n) == usb_buf

Command(usb_buf, n) == Slice(usb_buf, 0, n)

\* Either::First(Ok(n))
UsbReadOk(msg) ==
    /\ pc = "relay_command"
    /\ enabled
    /\ Len(usb_rx_log) < MaxHostMsgs
    /\ LET usb_buf == ReadInto(ZeroArray(USB_BUF_LEN), msg)
           n == Len(msg)
           command == Command(usb_buf, n)
       IN  /\ usb_rx_log' = Append(usb_rx_log, msg)
           /\ IF pretty_print(command).panicked
              THEN /\ pc' = "panic"
                   /\ ev' = "panic_fmt"
                   /\ UNCHANGED uart_tx_log
              ELSE /\ uart_tx_log' = Append(uart_tx_log, command)
                   /\ \E written \in BOOLEAN :
                        ev' = IF written THEN "usb_ok" ELSE "usb_ok_write_err"
                   /\ UNCHANGED pc
    /\ UNCHANGED <<enabled, payload, usb_tx_log, stream, pos>>
    /\ UNCHANGED detVars

\* Either::First(Err(e))
UsbReadErr ==
    /\ pc = "relay_command"
    /\ ~enabled
    /\ ev' = "usb_read_err"
    /\ UNCHANGED <<pc, enabled, payload, usb_tx_log, uart_tx_log, usb_rx_log, stream, pos>>
    /\ UNCHANGED detVars

ForwardFrame_Drain(appended, len) ==
    LET frame == Slice(appended, 0, len)
        rest == Compact(appended, len)
        again == whole_packet(rest, ADDRESS)
    IN  IF pretty_print(frame).panicked
        THEN /\ pc' = "panic"
             /\ ev' = "panic_fmt"
             /\ payload' = appended
             /\ UNCHANGED usb_tx_log
        ELSE /\ usb_tx_log' =
                  IF again.ok
                  THEN usb_tx_log \o <<frame, Slice(rest, 0, again.val)>>
                  ELSE Append(usb_tx_log, frame)
             /\ \E written \in BOOLEAN :
                  ev' = IF written THEN "uart_frame" ELSE "uart_frame_write_err"
             /\ payload' = IF again.ok THEN Compact(rest, again.val) ELSE rest
             /\ UNCHANGED pc

ForwardFrame_KeepOnWriteErr(appended, len) ==
    LET frame == Slice(appended, 0, len)
    IN  IF pretty_print(frame).panicked
        THEN /\ pc' = "panic"
             /\ ev' = "panic_fmt"
             /\ payload' = appended
             /\ UNCHANGED usb_tx_log
        ELSE /\ usb_tx_log' = Append(usb_tx_log, frame)
             /\ \E written \in BOOLEAN :
                  /\ ev' = IF written THEN "uart_frame" ELSE "uart_frame_write_err"
                  /\ payload' = IF written THEN Compact(appended, len) ELSE appended
             /\ UNCHANGED pc

\* The Ok(len) arm of the match on whole_packet.  pretty_print is called on
\* the same slice before the write (line 244) and after it (line 251): the
\* first call panics if any does.  usb_tx_log records the slice handed to
\* usb_tx.write; ev records whether the write returned Ok or Err.
ForwardFrame(appended, len) ==
    LET frame == Slice(appended, 0, len)
    IN  IF pretty_print(frame).panicked
        THEN /\ pc' = "panic"
             /\ ev' = "panic_fmt"
             /\ payload' = appended
             /\ UNCHANGED usb_tx_log
        ELSE /\ usb_tx_log' = Append(usb_tx_log, frame)
             /\ \E written \in BOOLEAN :
                  ev' = IF written THEN "uart_frame" ELSE "uart_frame_write_err"
             /\ payload' = Compact(appended, len)
             /\ UNCHANGED pc

NoFrame_DropsFirstByte(appended) ==
    /\ payload' = Tail(appended)
    /\ ev' = "uart_no_frame"
    /\ UNCHANGED <<pc, usb_tx_log>>

NoFrame_ClearsBuffer(appended) ==
    /\ payload' = <<>>
    /\ ev' = "uart_no_frame"
    /\ UNCHANGED <<pc, usb_tx_log>>

\* The Err(..) arm of the match on whole_packet.
NoFrame(appended) ==
    /\ payload' = appended
    /\ ev' = "uart_no_frame"
    /\ UNCHANGED <<pc, usb_tx_log>>

\* Either::Second(Ok(Ok(n)))
UartReadOk(n) ==
    /\ pc = "relay_command"
    /\ CanRead(stream, pos, n)
    /\ pos' = pos + n
    /\ LET uart_buf == ReadInto(ZeroArray(UART_BUF_LEN), Slice(stream, pos, pos + n))
           ext == extend_from_slice(payload, Slice(uart_buf, 0, n))
       IN  IF ~ext.ok
           THEN /\ pc' = "panic"
                /\ ev' = "panic_capacity"
                /\ UNCHANGED <<payload, usb_tx_log>>
           ELSE LET found == whole_packet(ext.val, ADDRESS)
                IN  IF found.ok
                    THEN ForwardFrame(ext.val, found.val)
                    ELSE NoFrame(ext.val)
    /\ UNCHANGED <<enabled, uart_tx_log, usb_rx_log, stream>>
    /\ UNCHANGED detVars

\* Either::Second(Ok(Err(uart::Error::Break)))
UartBreak ==
    /\ pc = "relay_command"
    /\ ev' = "uart_break"
    /\ UNCHANGED <<pc, enabled, payload, usb_tx_log, uart_tx_log, usb_rx_log, stream, pos>>
    /\ UNCHANGED detVars

\* Either::Second(Ok(Err(e)))
UartErr ==
    /\ pc = "relay_command"
    /\ ev' = "uart_err"
    /\ UNCHANGED <<pc, enabled, payload, usb_tx_log, uart_tx_log, usb_rx_log, stream, pos>>
    /\ UNCHANGED detVars

Timeout_ClearsBuffer ==
    /\ pc = "relay_command"
    /\ ev' = "timeout"
    /\ payload' = <<>>
    /\ UNCHANGED <<pc, enabled, usb_tx_log, uart_tx_log, usb_rx_log, stream, pos>>
    /\ UNCHANGED detVars

\* Either::Second(Err(embassy_time::TimeoutError))
Timeout ==
    /\ pc = "relay_command"
    /\ ev' = "timeout"
    /\ UNCHANGED <<pc, enabled, payload, usb_tx_log, uart_tx_log, usb_rx_log, stream, pos>>
    /\ UNCHANGED detVars

Next ==
    \/ HostEnable
    \/ HostDisable
    \/ WaitConnected
    \/ \E msg \in HostMsgs : UsbReadOk(msg)
    \/ UsbReadErr
    \/ \E n \in 1..UART_BUF_LEN : UartReadOk(n)
    \/ UartBreak
    \/ UartErr
    \/ Timeout

Spec == Init /\ [][Next]_vars

(***************************************************************************)
(* The detector on its own: buffers of every length 0..256 grown byte by   *)
(* byte from frame images with right and wrong headers, addresses and      *)
(* length fields, checked against either expected address.                 *)
(***************************************************************************)
TestHeaders == { HEADER, <<0, 0>>, <<239, 0>>, <<0, 1>> }
TestAddresses == { ADDRESS, OTHER_ADDRESS, <<255, 255, 255, 170>> }
ExpectedAddresses == { ADDRESS, OTHER_ADDRESS }
ShortLens == { 0, 2, 3, 4 }
LongLens == { 247, 256 }

TestStreams ==
    { MkFrame(h, a, 7, l, l + MaxTrail) :
        h \in TestHeaders, a \in TestAddresses, l \in ShortLens }
    \cup { MkFrame(HEADER, ADDRESS, 7, l, l + MaxTrail) : l \in LongLens }

InitDetect ==
    /\ pc = "wait_connected"
    /\ enabled = FALSE
    /\ payload = <<>>
    /\ usb_tx_log = <<>>
    /\ uart_tx_log = <<>>
    /\ usb_rx_log = <<>>
    /\ stream \in TestStreams
    /\ pos = 0
    /\ ev = "init"
    /\ buffer = <<>>
    /\ address \in ExpectedAddresses
    /\ det = NoDet

\* The buffer under test grows by the next byte of the image.
Push ==
    /\ Len(buffer) < Len(stream)
    /\ Len(buffer) < PAYLOAD_CAP
    /\ buffer' = Append(buffer, stream[Len(buffer) + 1])
    /\ det' = NoDet
    /\ UNCHANGED <<address, stream>>
    /\ UNCHANGED relayVars

\* whole_packet(&buffer, &address)
Detect ==
    /\ ~det.done
    /\ det' = [done |-> TRUE, res |-> whole_packet(buffer, address)]
    /\ UNCHANGED <<buffer, address, stream>>
    /\ UNCHANGED relayVars

NextDetect == Push \/ Detect

SpecDetect == InitDetect /\ [][NextDetect]_vars

(***************************************************************************)
(* Claims.                                                                 *)
(***************************************************************************)
BeLen(B) == B[8] * 256 + B[9]

\* The condition of C1, written from the frame layout.
IsFramePrefix(B, A) ==
    /\ Len(B) >= 12
    /\ B[1] = 239 /\ B[2] = 1
    /\ \A i \in 1..4 : B[2 + i] = A[i]
    /\ BeLen(B) >= 3
    /\ Len(B) >= 9 + BeLen(B)

\* C1: whole_packet(B, A) reports a frame length exactly when B has at least
\* 12 bytes, starts with EF 01, carries A at [2..6), has a big-endian length
\* field len >= 3 at [7..9) and holds at least 9 + len bytes; the length
\* reported is then 9 + len, and in every other case nothing is reported.
C1_WholePacketIffFrame ==
    det.done =>
        /\ det.res.ok <=> IsFramePrefix(buffer, address)
        /\ det.res.ok => det.res.val = 9 + BeLen(buffer)
        /\ Len(buffer) < 12 => ~det.res.ok

\* C1 witness: a 12-byte buffer with a valid header, the (non-default)
\* expected address and length field 00 03 has been reported as 12.
C1_Witness ==
    /\ det.done
    /\ Len(buffer) = 12
    /\ address = OTHER_ADDRESS
    /\ buffer[8] = 0 /\ buffer[9] = 3
    /\ det.res.ok
    /\ det.res.val = 12

\* C2: on a buffer of at least 12 bytes with a wrong header, a wrong address
\* or a length field below 3 the detector's outcome (Invalid) is a different
\* result value from the outcome it gives a buffer shorter than 12 bytes
\* (Incomplete).
C2_InvalidDistinctFromIncomplete ==
    ( /\ det.done
      /\ Len(buffer) >= 12
      /\ \/ SubSeq(buffer, 1, 2) # <<239, 1>>
         \/ SubSeq(buffer, 3, 6) # address
         \/ BeLen(buffer) < 3 )
    => det.res # whole_packet(<<>>, address)

(***************************************************************************)
(* Claims about the relay loop.                                            *)
(***************************************************************************)
RECURSIVE Flatten(_)
Flatten(ss) == IF ss = <<>> THEN <<>> ELSE Head(ss) \o Flatten(Tail(ss))

\* The device bytes uart_rx.read has returned so far.
Received == SubSeq(stream, 1, pos)

\* The sensor sends exactly one valid frame of at most 256 bytes.
IsWholeFrame(s) ==
    /\ IsFramePrefix(s, <<255, 255, 255, 255>>)
    /\ Len(s) = 9 + BeLen(s)
    /\ Len(s) <= 256

\* C3: from an empty buffer, for every valid frame F of at most 256 bytes and
\* every split of F into device reads, interleaved with timeouts and host
\* messages, nothing is written to the host channel before the read that
\* delivers the last byte of F, and after that read exactly one message,
\* equal to F, has been written and the buffer is empty.
C3_FrameForwardedOnceOnLastByte ==
    IsWholeFrame(stream) =>
        IF pos = Len(stream)
        THEN usb_tx_log = <<stream>> /\ payload = <<>>
        ELSE usb_tx_log = <<>>

\* C4: when the detector reports L on the buffer b[0..total) and the frame
\* is extracted, the buffer becomes b[L..total): length total - L, the bytes
\* after the frame in their order from offset 0.
C4_CompactionKeepsTail ==
    [][ LET b == payload \o SubSeq(stream, pos + 1, pos')
            found == whole_packet(b, <<255, 255, 255, 255>>)
        IN  ( /\ pos' > pos
              /\ pc' = "relay_command"
              /\ Len(b) <= 256
              /\ found.ok )
            => /\ Len(payload') = Len(b) - found.val
               /\ payload' = SubSeq(b, found.val + 1, Len(b)) ]_vars

\* C4 witness: a 12-byte frame followed by 5 more bytes was in the buffer,
\* the frame has been extracted and the buffer holds those 5 bytes.
C4_Witness ==
    /\ ev \in {"uart_frame", "uart_frame_write_err"}
    /\ pos = 17
    /\ Len(usb_tx_log) = 1
    /\ Len(usb_tx_log[1]) = 12
    /\ payload = <<1, 2, 3, 4, 5>>

\* C5: a device read whose bytes would make the buffer exceed 256 bytes does
\* not abort the relay loop (the session continues), and the buffer never
\* holds more than 256 bytes.
C5_OverflowDoesNotAbort ==
    /\ ev = "panic_capacity" => pc = "relay_command"
    /\ Len(payload) <= 256

\* C6: once the relay loop has seen the host channel disconnected (the read
\* of the disabled endpoint), relay_command has returned and main is back at
\* wait_connected, from where the next session starts with an empty buffer.
C6_DisconnectEndsRelay ==
    ev = "usb_read_err" => pc = "wait_connected" /\ payload = <<>>

C8_NoByteLostOrReordered ==
    pc = "relay_command" => Flatten(usb_tx_log) \o payload = Received

\* C8 witness: two frames have been extracted and bytes of a third wait.
C8_Witness ==
    /\ pc = "relay_command"
    /\ Len(usb_tx_log) = 2
    /\ payload # <<>>
    /\ pos < Len(stream)

\* C9: pretty_print completes on every byte sequence the relay loop passes
\* to it (a host message or a detected frame of up to 256 bytes): the relay
\* loop never aborts in the formatter.
C9_FormatterNeverAborts ==
    ev # "panic_fmt"

\* C10: when the detector reports no frame after an append, nothing is
\* written to either channel and the buffer is exactly the appended buffer.
C10_NoFrameLeavesAppendedBuffer ==
    [][ LET b == payload \o SubSeq(stream, pos + 1, pos')
        IN  ( /\ pos' > pos
              /\ Len(b) <= 256
              /\ ~whole_packet(b, <<255, 255, 255, 255>>).ok )
            => /\ payload' = b
               /\ usb_tx_log' = usb_tx_log
               /\ uart_tx_log' = uart_tx_log
               /\ pc' = "relay_command" ]_vars

\* C10 witness: the detector has rejected a buffer of at least 12 bytes with
\* a wrong header (Invalid), and the bytes are still in the buffer.
C10_Witness ==
    /\ ev = "uart_no_frame"
    /\ Len(payload) >= 12
    /\ payload[1] = 0
    /\ payload = Received

\* C11: an iteration that ends in a device-channel timeout, a device-channel
\* break, another device-channel read error or a host-channel read error
\* leaves the buffer as it was, writes nothing to either channel, consumes no
\* device byte and leaves the relay loop running.
C11_ErrorsAndTimeoutsChangeNothing ==
    [][ ev' \in {"timeout", "uart_break", "uart_err", "usb_read_err"}
        => /\ payload' = payload
           /\ usb_tx_log' = usb_tx_log
           /\ uart_tx_log' = uart_tx_log
           /\ usb_rx_log' = usb_rx_log
           /\ pos' = pos
           /\ pc = "relay_command"
           /\ pc' = "relay_command" ]_vars

\* C11 witness: a timeout has passed while device bytes were waiting in the
\* buffer and frames and host messages had already been relayed.
C11_Witness ==
    /\ ev = "timeout"
    /\ pc = "relay_command"
    /\ payload # <<>>
    /\ usb_tx_log # <<>>
    /\ uart_tx_log # <<>>

\* A complete well-formed frame for the relay's address, written from the
\* frame layout: EF 01, FF FF FF FF, a length field of at least 3, exactly
\* 9 + length field bytes, between 12 and 256 bytes.
IsForwardable(m) ==
    /\ Len(m) >= 12 /\ Len(m) <= 256
    /\ m[1] = 239 /\ m[2] = 1
    /\ m[3] = 255 /\ m[4] = 255 /\ m[5] = 255 /\ m[6] = 255
    /\ m[8] * 256 + m[9] >= 3
    /\ Len(m) = 9 + m[8] * 256 + m[9]

\* C12: every message written to the host channel is a complete well-formed
\* frame (header, expected address, length field >= 3, size 9 + length field,
\* 12..256 bytes), and it is the front of the accumulation buffer as it was
\* right after the append of the iteration that writes it.
C12_OnlyWholeFramesReachHost ==
    /\ [](\A i \in 1..Len(usb_tx_log) : IsForwardable(usb_tx_log[i]))
    /\ [][ usb_tx_log' # usb_tx_log
           => /\ Len(usb_tx_log') = Len(usb_tx_log) + 1
              /\ pos' > pos
              /\ LET m == usb_tx_log'[Len(usb_tx_log')]
                     b == payload \o SubSeq(stream, pos + 1, pos')
                 IN  /\ Len(m) <= Len(b)
                     /\ m = SubSeq(b, 1, Len(m)) ]_vars

\* C12 witness: of a stream of three back-to-back frames the 12-byte frame
\* and then the 15-byte frame have been written to the host channel.
C12_Witness ==
    /\ Len(usb_tx_log) = 2
    /\ Len(usb_tx_log[1]) = 12
    /\ Len(usb_tx_log[2]) = 15
    /\ IsForwardable(usb_tx_log[2])

\* C13: a successful device read writes at most one frame to the host
\* channel; when the appended buffer starts with two complete frames and the
\* first is extracted, only the first is written and the buffer then starts
\* with the second, still complete.
C13_OneFramePerRead ==
    [][ /\ Len(usb_tx_log') <= Len(usb_tx_log) + 1
        /\ LET b == payload \o SubSeq(stream, pos + 1, pos')
               first == whole_packet(b, <<255, 255, 255, 255>>)
               rest == SubSeq(b, first.val + 1, Len(b))
           IN  ( /\ pos' > pos
                 /\ pc' = "relay_command"
                 /\ Len(b) <= 256
                 /\ first.ok
                 /\ whole_packet(rest, <<255, 255, 255, 255>>).ok )
               => /\ usb_tx_log' = Append(usb_tx_log, SubSeq(b, 1, first.val))
                  /\ payload' = rest
                  /\ whole_packet(payload', <<255, 255, 255, 255>>).ok ]_vars

\* C13 witness: one read delivered three back-to-back frames (39 bytes); one
\* frame was written and the buffer starts with the next complete frame.
C13_Witness ==
    /\ pos = 39
    /\ Len(usb_tx_log) = 1
    /\ Len(payload) = 27
    /\ whole_packet(payload, <<255, 255, 255, 255>>).ok

\* The buffer holds at least 12 bytes and its prefix fails the header, the
\* address or the minimum-length check.
Stalled(p) ==
    /\ Len(p) >= 12
    /\ \/ SubSeq(p, 1, 2) # <<239, 1>>
       \/ SubSeq(p, 3, 6) # <<255, 255, 255, 255>>
       \/ p[8] * 256 + p[9] < 3

\* C14: once the buffer is stalled (at least 12 bytes with a prefix the
\* detector rejects), every later step of the session writes nothing to the
\* host channel, keeps the buffer's content as a prefix of the new buffer
\* (so the front never changes, the length never decreases and the buffer
\* stays stalled), and a successful device read appends its bytes, within
\* the 256-byte capacity.
C14_StalledBufferNeverForwards ==
    [][ (pc = "relay_command" /\ Stalled(payload))
        => /\ usb_tx_log' = usb_tx_log
           /\ Len(payload') >= Len(payload)
           /\ Len(payload') <= 256
           /\ SubSeq(payload', 1, Len(payload)) = payload
           /\ Stalled(payload')
           /\ (pos' > pos /\ pc' = "relay_command")
                 => payload' = payload \o SubSeq(stream, pos + 1, pos') ]_vars

\* C14 witness: a 12-byte frame for another address was followed by a valid
\* 12-byte frame; all 24 bytes are in the buffer and nothing was forwarded.
C14_Witness ==
    /\ pc = "relay_command"
    /\ Stalled(payload)
    /\ payload[1] = 239 /\ payload[3] = 170
    /\ Len(payload) = 24
    /\ pos = Len(stream)
    /\ usb_tx_log = <<>>
    /\ whole_packet(SubSeq(payload, 13, 24), <<255, 255, 255, 255>>).ok

\* C15: while a complete frame is at the front of the buffer, an iteration
\* without a successful device read (timeout, error, host message) writes
\* nothing to the host channel and leaves the buffer alone, and the next
\* iteration with a successful device read writes that frame to the host
\* channel.
C15_LeftoverFrameForwardedOnNextRead ==
    [][ LET front == whole_packet(payload, <<255, 255, 255, 255>>)
        IN  (pc = "relay_command" /\ front.ok)
            => IF pos' > pos
               THEN usb_tx_log' = Append(usb_tx_log, SubSeq(payload, 1, front.val))
               ELSE usb_tx_log' = usb_tx_log /\ payload' = payload ]_vars

\* C16: an iteration whose write of the detected frame to the host channel
\* fails makes that one write and no other, removes the frame from the
\* buffer exactly as an iteration whose write succeeds does (the buffer is
\* the appended buffer without its first L bytes, L the length of the frame
\* written), and leaves the loop running.
C16_FailedHostWriteStillCompacts ==
    [][ (pos' > pos /\ ev' \in {"uart_frame", "uart_frame_write_err"})
        => LET b == payload \o SubSeq(stream, pos + 1, pos')
               L == Len(usb_tx_log'[Len(usb_tx_log')])
           IN  /\ Len(usb_tx_log') = Len(usb_tx_log) + 1
               /\ SubSeq(usb_tx_log', 1, Len(usb_tx_log)) = usb_tx_log
               /\ payload' = SubSeq(b, L + 1, Len(b))
               /\ pc' = "relay_command" ]_vars

\* C16 witness: the write of a 12-byte frame failed and the 5 bytes that
\* followed the frame are what the buffer holds.
C16_Witness ==
    /\ ev = "uart_frame_write_err"
    /\ pc = "relay_command"
    /\ Len(usb_tx_log) = 1
    /\ Len(usb_tx_log[1]) = 12
    /\ payload = <<1, 2, 3, 4, 5>>
    /\ pos = 17

====
